---- MODULE Spec2Model ----
(***************************************************************************)
(* Task coordination, log streaming and process execution of AutoM6A:      *)
(*   gui.py               unified_analysis_executor, run_agent,            *)
(*                        stop_analysis                                    *)
(*   src/log_handler.py   the module-level task state, the log queue and   *)
(*                        _stream_logs_with_heartbeat                      *)
(*   src/executor.py      CodeExecutor.execute, _monitor_stop_flag,        *)
(*                        terminate                                        *)
(* Every start request r is a handler thread; the worker thread it         *)
(* launches, the executor its Agent owns and the streaming loop it runs    *)
(* carry the same index r.                                                 *)
(***************************************************************************)
EXTENDS Integers, Sequences, FiniteSets, TLC

\* Number of start requests (clicks on a start button) in a run.
MaxRequests == 2
\* Number of execute() calls one Agent.run() makes at most.
MaxExec == 2
\* Number of lines of a script given to execute() at most.
MaxLines == 3
\* Number of steps of the streaming loop that read the clock, at most.
MaxLoops == 8
\* The same, when the worker publishes bursts of records.
MaxBufferLoops == 5
\* Number of bursts of records Agent.run publishes at most.
MaxBursts == 2
\* Number of lines a pipe between the child and execute() holds before a
\* write to it blocks, and number of lines a child script writes at most.
PipeCapacity == 2
MaxWrites == 5

Requests == 1..MaxRequests
Execs == 1..MaxExec
\* The value None of current_thread, current_process and _task_start_time.
None == 0

VARIABLES
    \* ---- src/log_handler.py module state ----
    task_running,      \* task_running
    task_start_time,   \* _task_start_time: None or the instant of the init
    current_thread,    \* current_thread: None or the worker's index
    stop_flag,         \* stop_flag (threading.Event): is it set
    log_queue,         \* log_queue: the queued records, each the index of the
                       \* worker that published it
    task_state_file,   \* the content of .task_state.json
    \* ---- gui.py handler threads ----
    rpc,               \* position of start request r in unified_analysis_executor
    spc,               \* position of the stop request in stop_analysis, or
                       \* what the last one returned
    \* ---- worker threads (run_agent) ----
    wpc,               \* position of worker w
    \* ---- src/executor.py: the CodeExecutor of worker w ----
    exec_no,           \* number of execute() calls made so far
    current_process,   \* self.current_process: None or the child's index
    is_interrupted,    \* self.is_interrupted
    process_lock,      \* self.process_lock: is it held (by a terminate())
    exec_result,       \* what the last execute() returned
    child,             \* state of the child process of execution e
    mon,               \* position of the monitor thread of execution e
    termBy,            \* history: the monitors that signalled child e
    siglog,            \* history: what terminate() sent to child e, in order
    bash_content,      \* the lines of the script file given to execute()
    execute_script,    \* the lines of the .execute.sh file that is run
    lpc,               \* the streaming loop's position, followed in detail
    log_buffer,        \* the loop's rolling buffer
    has_new_log,       \* the loop's local of that name
    since_yield,       \* current_time - last_yield_time, in ticks
    since_heartbeat,   \* current_time - last_heartbeat_time, in ticks
    slept,             \* ticks slept since current_time was read
    loops,             \* iterations begun so far
    snapshots,         \* history: the snapshots emitted, in order
    published,         \* records published so far by the detailed worker
    bursts,            \* bursts of records Agent.run has published
    xpc,               \* position of execute() at the pipes of its child
    writer,            \* the child seen from its pipes: off, running, exited
    child_script,      \* what the child has still to write: "out" for a
                       \* line on its stdout, "err" for a line on its stderr
    stdout_pipe,       \* lines written to the stdout pipe and not yet read
    stderr_pipe        \* lines written to the stderr pipe and not yet read

coord == <<task_running, task_start_time, current_thread, stop_flag,
           log_queue, task_state_file>>
handlers == <<rpc, spc>>
executor == <<exec_no, current_process, is_interrupted, process_lock,
              exec_result, child, mon, termBy, siglog>>
rewrite == <<bash_content, execute_script>>
stream == <<lpc, log_buffer, has_new_log, since_yield, since_heartbeat, slept,
            loops, snapshots, published, bursts>>
pipes == <<xpc, writer, child_script, stdout_pipe, stderr_pipe>>
detail == <<rewrite, stream, pipes>>
vars == <<coord, handlers, wpc, executor, detail>>

----------------------------------------------------------------------------
\* is_task_running as it would be if it looked at the stored handle instead
\* of the flag
is_task_running_by_handle == current_thread # None

\* log_handler.is_task_running
is_task_running == task_running

\* threading.Thread.is_alive of worker w: started and not yet returned
is_alive(w) == wpc[w] \notin {"none", "created", "finished"}

\* log_handler.log_callback: one record appended to the queue
log_callback(w) == log_queue' = Append(log_queue, w)

\* time.time() at the instant start request r runs init_task_state
Now(r) == r

\* the script rewriting and the detailed streaming loop are not in use
RewriteIdle == bash_content = <<>> /\ execute_script = <<>>

StreamIdle ==
    /\ lpc = "off"
    /\ log_buffer = <<>>
    /\ has_new_log = FALSE
    /\ since_yield = 0
    /\ since_heartbeat = 0
    /\ slept = 0
    /\ loops = 0
    /\ snapshots = <<>>
    /\ published = 0
    /\ bursts = 0

\* no child is followed at its pipes
PipeIdle ==
    /\ xpc = "off"
    /\ writer = "off"
    /\ child_script = <<>>
    /\ stdout_pipe = 0
    /\ stderr_pipe = 0

\* the coordinator, the handlers, the workers and the executors at the start
InitProgram ==
    /\ task_running = FALSE
    /\ task_start_time = None
    /\ current_thread = None
    /\ stop_flag = FALSE
    /\ log_queue = <<>>
    /\ task_state_file = [running |-> FALSE, absent |-> TRUE]
    /\ rpc = [r \in Requests |-> "ready"]
    /\ spc = "idle"
    /\ wpc = [w \in Requests |-> "none"]
    /\ exec_no = [w \in Requests |-> 0]
    /\ current_process = [w \in Requests |-> None]
    /\ is_interrupted = [w \in Requests |-> FALSE]
    /\ process_lock = [w \in Requests |-> FALSE]
    /\ exec_result = [w \in Requests |-> "none"]
    /\ child = [w \in Requests |-> [e \in Execs |-> "none"]]
    /\ mon = [w \in Requests |-> [e \in Execs |-> "none"]]
    /\ termBy = [w \in Requests |-> [e \in Execs |-> {}]]
    /\ siglog = [w \in Requests |-> [e \in Execs |-> <<>>]]

Init == InitProgram /\ RewriteIdle /\ StreamIdle /\ PipeIdle

----------------------------------------------------------------------------
\* gui.py unified_analysis_executor, the start request r

\* lines 84-86: the guard; a request that finds a task running returns
StartCheck(r) ==
    /\ rpc[r] = "ready"
    /\ rpc' = [rpc EXCEPT ![r] = IF is_task_running THEN "rejected" ELSE "init"]
    /\ UNCHANGED <<coord, spc, wpc, executor>>
    /\ UNCHANGED detail

\* log_handler.init_task_state (called at line 89)
init_task_state(r) ==
    /\ task_running' = TRUE
    /\ task_start_time' = Now(r)
    /\ log_queue' = <<>>

StartInit(r) ==
    /\ rpc[r] = "init"
    /\ init_task_state(r)
    /\ rpc' = [rpc EXCEPT ![r] = "clear"]
    /\ UNCHANGED <<current_thread, stop_flag, task_state_file, spc, wpc, executor>>
    /\ UNCHANGED detail

\* lines 90-98: stop_flag.clear() and the start checkpoint
StartClear(r) ==
    /\ rpc[r] = "clear"
    /\ stop_flag' = FALSE
    /\ task_state_file' = [running |-> TRUE, mode |-> r, start_time |-> r,
                           config |-> r]
    /\ rpc' = [rpc EXCEPT ![r] = "spawn"]
    /\ UNCHANGED <<task_running, task_start_time, current_thread, log_queue, spc, wpc, executor>>
    /\ UNCHANGED detail

\* log_handler.set_current_thread
set_current_thread(w) == current_thread' = w

\* lines 162-163: the Thread object is made and stored, not yet started
StartSpawn(r) ==
    /\ rpc[r] = "spawn"
    /\ wpc' = [wpc EXCEPT ![r] = "created"]
    /\ set_current_thread(r)
    /\ rpc' = [rpc EXCEPT ![r] = "start"]
    /\ UNCHANGED <<task_running, task_start_time, stop_flag, log_queue,
                   task_state_file, spc, executor>>
    /\ UNCHANGED detail

\* line 164: thread.start(); line 167: the handler enters the streaming loop
StartThread(r) ==
    /\ rpc[r] = "start"
    /\ wpc' = [wpc EXCEPT ![r] = "header"]
    /\ rpc' = [rpc EXCEPT ![r] = "loop"]
    /\ UNCHANGED <<coord, spc, executor>>
    /\ UNCHANGED detail

----------------------------------------------------------------------------
\* log_handler._stream_logs_with_heartbeat, run by the handler of request r

\* lines 109-115: current_thread is not None and current_thread.is_alive()
thread_alive == current_thread # None /\ is_alive(current_thread)

\* lines 106-122: the top of an iteration; an idle loop sleeps 0.1 s and
\* looks at the queue again before it leaves
StreamTop(r) ==
    /\ rpc[r] = "loop"
    /\ rpc' = [rpc EXCEPT ![r] =
                 IF ~thread_alive /\ log_queue = <<>> THEN "recheck" ELSE "drain"]
    /\ UNCHANGED <<coord, spc, wpc, executor>>
    /\ UNCHANGED detail

\* lines 120-122: after the sleep, break if the queue is still empty
StreamRecheck(r) ==
    /\ rpc[r] = "recheck"
    /\ rpc' = [rpc EXCEPT ![r] = IF log_queue = <<>> THEN "final" ELSE "drain"]
    /\ UNCHANGED <<coord, spc, wpc, executor>>
    /\ UNCHANGED detail

\* lines 124-178: drain the queue, save the periodic checkpoint when
\* SAVE_INTERVAL has elapsed (save_due), emit, then look at the stop signal
StreamDrain(r, save_due) ==
    /\ rpc[r] = "drain"
    /\ log_queue' = <<>>
    /\ task_state_file' =
         IF save_due
         THEN [running |-> TRUE, line_count |-> r, last_update |-> r]
         ELSE task_state_file
    /\ rpc' = [rpc EXCEPT ![r] = IF stop_flag THEN "final" ELSE "loop"]
    /\ UNCHANGED <<task_running, task_start_time, current_thread, stop_flag,
                   spc, wpc, executor>>
    /\ UNCHANGED detail

\* lines 180-212: the final drain, the final checkpoint, task_running = False
\* and the final snapshot
StreamFinal(r) ==
    /\ rpc[r] = "final"
    /\ log_queue' = <<>>
    /\ task_state_file' = [running |-> FALSE, completed |-> TRUE,
                           line_count |-> r, end_time |-> r]
    /\ task_running' = FALSE
    /\ rpc' = [rpc EXCEPT ![r] = "done"]
    /\ UNCHANGED <<task_start_time, current_thread, stop_flag, spc, wpc,
                   executor>>
    /\ UNCHANGED detail

----------------------------------------------------------------------------
\* gui.py stop_analysis, the stop request (reset_chat and
\* start_new_conversation set the signal behind the same guard)

\* stop_analysis as it would be without its guard
StopGuard_missing == FALSE

\* lines 464-465: the guard
StopGuard == ~is_task_running

\* lines 464-468: a stop request is made; it returns the nothing-to-stop
\* message, or goes on to set the signal
StopCheck ==
    /\ spc # "set"
    /\ spc' = IF StopGuard THEN "nothing" ELSE "set"
    /\ UNCHANGED <<coord, rpc, wpc, executor>>
    /\ UNCHANGED detail

\* lines 468-472: stop_flag.set(), then the signal-sent message
StopSet ==
    /\ spc = "set"
    /\ stop_flag' = TRUE
    /\ spc' = "sent"
    /\ UNCHANGED <<task_running, task_start_time, current_thread, log_queue,
                   task_state_file, rpc, wpc, executor>>
    /\ UNCHANGED detail

----------------------------------------------------------------------------
\* gui.py run_agent, the worker thread w

\* lines 104-113: _log_analysis_header
WorkerHeader(w) ==
    /\ wpc[w] = "header"
    /\ log_callback(w)
    /\ wpc' = [wpc EXCEPT ![w] = "agent"]
    /\ UNCHANGED <<task_running, task_start_time, current_thread, stop_flag,
                   task_state_file, handlers, executor>>
    /\ UNCHANGED detail

\* lines 115-136: the Agent (and its CodeExecutor) is made; a task cancelled
\* before it started returns at once
WorkerAgent(w) ==
    /\ wpc[w] = "agent"
    /\ IF stop_flag
       THEN /\ log_callback(w)
            /\ wpc' = [wpc EXCEPT ![w] = "finally"]
       ELSE /\ log_callback(w)
            /\ wpc' = [wpc EXCEPT ![w] = "run"]
    /\ UNCHANGED <<task_running, task_start_time, current_thread, stop_flag,
                   task_state_file, handlers, executor>>
    /\ UNCHANGED detail

\* line 138, Agent.run: the Agent is done with its rounds
AgentReturn(w) ==
    /\ wpc[w] = "run"
    /\ wpc' = [wpc EXCEPT ![w] = "after"]
    /\ UNCHANGED <<coord, handlers, executor>>
    /\ UNCHANGED detail

\* lines 140-143: the footer, or the interrupted notice
WorkerAfter(w) ==
    /\ wpc[w] = "after"
    /\ log_callback(w)
    /\ wpc' = [wpc EXCEPT ![w] = "finally"]
    /\ UNCHANGED <<task_running, task_start_time, current_thread, stop_flag,
                   task_state_file, handlers, executor>>
    /\ UNCHANGED detail

\* log_handler.reset_task_state
reset_task_state ==
    /\ task_running' = FALSE
    /\ task_start_time' = None
    /\ current_thread' = None
    /\ stop_flag' = FALSE

\* lines 155-156: the finally block calls reset_task_state
WorkerFinally(w) ==
    /\ wpc[w] = "finally"
    /\ reset_task_state
    /\ wpc' = [wpc EXCEPT ![w] = "trail"]
    /\ UNCHANGED <<log_queue, task_state_file, handlers, executor>>
    /\ UNCHANGED detail

\* lines 157-159: the trailing lines, then the thread ends
WorkerTrail(w) ==
    /\ wpc[w] = "trail"
    /\ log_callback(w)
    /\ wpc' = [wpc EXCEPT ![w] = "finished"]
    /\ UNCHANGED <<task_running, task_start_time, current_thread, stop_flag,
                   task_state_file, handlers, executor>>
    /\ UNCHANGED detail

----------------------------------------------------------------------------
\* src/executor.py CodeExecutor.execute, called by Agent.run of worker w.
\* Agent.run makes up to MaxExec rounds and starts a round only while the
\* stop signal is unset.

\* Agent.run: another round is made while fewer than MaxExec were made and
\* the stop signal is unset
agent_may_execute(w) == exec_no[w] < MaxExec /\ ~stop_flag

\* lines 31-60: is_interrupted is reset, the script is rewritten, and the
\* monitor thread of this execution is started
ExecBegin(w) ==
    /\ wpc[w] = "run"
    /\ agent_may_execute(w)
    /\ exec_no' = [exec_no EXCEPT ![w] = @ + 1]
    /\ is_interrupted' = [is_interrupted EXCEPT ![w] = FALSE]
    /\ mon' = [mon EXCEPT ![w][exec_no'[w]] = "poll"]
    /\ wpc' = [wpc EXCEPT ![w] = "exec_spawn"]
    /\ UNCHANGED <<coord, handlers, current_process, process_lock,
                   exec_result, child, termBy, siglog>>
    /\ UNCHANGED detail

\* lines 64-75: Popen under the lock; the child leads a new process group.
\* A Popen that raises (ok = FALSE) leaves current_process as it was and
\* goes to the except branch.
ExecSpawn(w, ok) ==
    /\ wpc[w] = "exec_spawn"
    /\ ~process_lock[w]
    /\ IF ok
       THEN /\ current_process' = [current_process EXCEPT ![w] = exec_no[w]]
            /\ child' = [child EXCEPT ![w][exec_no[w]] = "running"]
            /\ wpc' = [wpc EXCEPT ![w] = "exec_read"]
       ELSE /\ wpc' = [wpc EXCEPT ![w] = "exec_except"]
            /\ UNCHANGED <<current_process, child>>
    /\ UNCHANGED <<coord, handlers, exec_no, is_interrupted, process_lock,
                   exec_result, mon, termBy, siglog>>
    /\ UNCHANGED detail

\* subprocess.Popen.poll() is None: the child has not ended
running(w, e) == child[w][e] \in {"running", "termed"}

\* lines 79-83: the top of the read loop
ExecRead(w) ==
    /\ wpc[w] = "exec_read"
    /\ wpc' = [wpc EXCEPT ![w] =
                 IF is_interrupted[w] THEN "exec_stderr" ELSE "exec_readline"]
    /\ UNCHANGED <<coord, handlers, executor>>
    /\ UNCHANGED detail

\* lines 85-90: readline() returns a line of a running child (eof = FALSE),
\* or '' at the end of the child's output; then current_process is read
\* again for poll(), and raises AttributeError if terminate() made it None
ExecReadline(w, eof) ==
    /\ wpc[w] = "exec_readline"
    /\ IF eof
       THEN /\ ~running(w, exec_no[w])
            /\ wpc' = [wpc EXCEPT ![w] =
                         IF current_process[w] = None THEN "exec_except"
                         ELSE "exec_stderr"]
       ELSE /\ running(w, exec_no[w])
            /\ wpc' = [wpc EXCEPT ![w] = "exec_read"]
    /\ UNCHANGED <<coord, handlers, executor>>
    /\ UNCHANGED detail

\* lines 93-95: current_process.stderr is looked up, which raises
\* AttributeError if terminate() has made current_process None
ExecStderr(w) ==
    /\ wpc[w] = "exec_stderr"
    /\ wpc' = [wpc EXCEPT ![w] =
                 IF current_process[w] = None THEN "exec_except"
                 ELSE "exec_readlines"]
    /\ UNCHANGED <<coord, handlers, executor>>
    /\ UNCHANGED detail

\* lines 95-114: readlines() returns at the end of stderr, which comes when
\* the child has ended
ExecReadlines(w) ==
    /\ wpc[w] = "exec_readlines"
    /\ ~running(w, exec_no[w])
    /\ wpc' = [wpc EXCEPT ![w] = "exec_wait"]
    /\ UNCHANGED <<coord, handlers, executor>>
    /\ UNCHANGED detail

\* lines 117-120: communicate() unless interrupted
ExecWait(w) ==
    /\ wpc[w] = "exec_wait"
    /\ IF ~is_interrupted[w] /\ current_process[w] = None
       THEN wpc' = [wpc EXCEPT ![w] = "exec_except"]
       ELSE /\ is_interrupted[w] \/ ~running(w, exec_no[w])
            /\ wpc' = [wpc EXCEPT ![w] = "exec_clear"]
    /\ UNCHANGED <<coord, handlers, executor>>
    /\ UNCHANGED detail

\* lines 122-130: current_process = None under the lock, then the result
ExecClear(w) ==
    /\ wpc[w] = "exec_clear"
    /\ ~process_lock[w]
    /\ current_process' = [current_process EXCEPT ![w] = None]
    /\ exec_result' = [exec_result EXCEPT ![w] =
                         IF is_interrupted[w] THEN "interrupted" ELSE "output"]
    /\ wpc' = [wpc EXCEPT ![w] = "run"]
    /\ UNCHANGED <<coord, handlers, exec_no, is_interrupted, process_lock,
                   child, mon, termBy, siglog>>
    /\ UNCHANGED detail

\* the except branch as it would be if it raised the exception again
ExecExcept_reraise(w) ==
    /\ wpc[w] = "exec_except"
    /\ ~process_lock[w]
    /\ current_process' = [current_process EXCEPT ![w] = None]
    /\ exec_result' = [exec_result EXCEPT ![w] = "raised"]
    /\ wpc' = [wpc EXCEPT ![w] = "after"]
    /\ UNCHANGED <<coord, handlers, exec_no, is_interrupted, process_lock,
                   child, mon, termBy, siglog>>
    /\ UNCHANGED detail

\* lines 132-136: the except branch
ExecExcept(w) ==
    /\ wpc[w] = "exec_except"
    /\ ~process_lock[w]
    /\ current_process' = [current_process EXCEPT ![w] = None]
    /\ exec_result' = [exec_result EXCEPT ![w] = "error"]
    /\ wpc' = [wpc EXCEPT ![w] = "run"]
    /\ UNCHANGED <<coord, handlers, exec_no, is_interrupted, process_lock,
                   child, mon, termBy, siglog>>
    /\ UNCHANGED detail

\* the child process of execution e ends by itself
ChildExit(w, e) ==
    /\ child[w][e] = "running"
    /\ child' = [child EXCEPT ![w][e] = "exited"]
    /\ UNCHANGED <<coord, handlers, wpc, exec_no, current_process,
                   is_interrupted, process_lock, exec_result, mon, termBy, siglog>>
    /\ UNCHANGED detail

\* the child process dies of a signal it was sent
ChildDie(w, e) ==
    /\ child[w][e] = "termed"
    /\ child' = [child EXCEPT ![w][e] = "killed"]
    /\ UNCHANGED <<coord, handlers, wpc, exec_no, current_process,
                   is_interrupted, process_lock, exec_result, mon, termBy,
                   siglog>>
    /\ UNCHANGED detail

----------------------------------------------------------------------------
\* src/executor.py CodeExecutor._monitor_stop_flag: the monitor thread that
\* execution e of worker w started

\* lines 196-201: poll the stop signal every 300 ms
MonitorPoll(w, e) ==
    /\ mon[w][e] = "poll"
    /\ stop_flag
    /\ mon' = [mon EXCEPT ![w][e] = "call"]
    /\ UNCHANGED <<coord, handlers, wpc, exec_no, current_process,
                   is_interrupted, process_lock, exec_result, child, termBy,
                   siglog>>
    /\ UNCHANGED detail

\* terminate() as it would be if it did not look at poll()
terminate_guard_no_poll(w) == current_process[w] # None

\* CodeExecutor.terminate, line 206: is there a process that has not ended
terminate_guard(w) ==
    current_process[w] # None /\ running(w, current_process[w])

\* a signal reaches the child c of executor w: a child that has not ended
\* has it pending
signalled(w, c) ==
    [child EXCEPT ![w][c] = IF @ = "running" THEN "termed" ELSE @]

\* CodeExecutor.terminate, lines 245-246 (and the end of the with block):
\* current_process = None, the lock is released, terminate() returns and
\* the monitor thread ends
terminate_finally(w, e) ==
    /\ current_process' = [current_process EXCEPT ![w] = None]
    /\ process_lock' = [process_lock EXCEPT ![w] = FALSE]
    /\ mon' = [mon EXCEPT ![w][e] = "done"]

\* CodeExecutor.terminate, lines 205-210 and 247-248: with the lock held,
\* either there is nothing to terminate, or is_interrupted is set
MonitorTerminate(w, e) ==
    /\ mon[w][e] = "call"
    /\ ~process_lock[w]
    /\ IF terminate_guard(w)
       THEN /\ process_lock' = [process_lock EXCEPT ![w] = TRUE]
            /\ is_interrupted' = [is_interrupted EXCEPT ![w] = TRUE]
            /\ termBy' = [termBy EXCEPT ![w][current_process[w]] = @ \cup {e}]
            /\ mon' = [mon EXCEPT ![w][e] = "sigterm"]
       ELSE /\ mon' = [mon EXCEPT ![w][e] = "done"]
            /\ UNCHANGED <<process_lock, is_interrupted, termBy>>
    /\ UNCHANGED <<coord, handlers, wpc, exec_no, current_process, exec_result,
                   child, siglog>>
    /\ UNCHANGED detail

\* terminate() as it would be if no error of killpg led to the fallback
MonitorSigterm_nofallback(w, e, res) ==
    /\ mon[w][e] = "sigterm"
    /\ LET c == current_process[w] IN
       CASE res = "sent" ->
              /\ siglog' = [siglog EXCEPT ![w][c] = Append(@, "TERM")]
              /\ child' = signalled(w, c)
              /\ mon' = [mon EXCEPT ![w][e] = "wait"]
              /\ UNCHANGED <<current_process, process_lock>>
         [] res = "lookup" ->
              /\ ~running(w, c)
              /\ siglog' = [siglog EXCEPT ![w][c] = Append(@, "noGroup")]
              /\ terminate_finally(w, e)
              /\ UNCHANGED child
         [] res = "error" ->
              /\ siglog' = [siglog EXCEPT ![w][c] = Append(@, "groupErr")]
              /\ terminate_finally(w, e)
              /\ UNCHANGED child
    /\ UNCHANGED <<coord, handlers, wpc, exec_no, is_interrupted, exec_result,
                   termBy>>
    /\ UNCHANGED detail

\* CodeExecutor.terminate, lines 213-218 and 230-235: getpgid and
\* killpg(SIGTERM).  res = "sent": the group was signalled; "lookup":
\* ProcessLookupError, the process is gone, nothing more is done; "error":
\* any other exception (no group signalling), the fallback is taken
MonitorSigterm(w, e, res) ==
    /\ mon[w][e] = "sigterm"
    /\ LET c == current_process[w] IN
       CASE res = "sent" ->
              /\ siglog' = [siglog EXCEPT ![w][c] = Append(@, "TERM")]
              /\ child' = signalled(w, c)
              /\ mon' = [mon EXCEPT ![w][e] = "wait"]
              /\ UNCHANGED <<current_process, process_lock>>
         [] res = "lookup" ->
              /\ ~running(w, c)
              /\ siglog' = [siglog EXCEPT ![w][c] = Append(@, "noGroup")]
              /\ terminate_finally(w, e)
              /\ UNCHANGED child
         [] res = "error" ->
              /\ siglog' = [siglog EXCEPT ![w][c] = Append(@, "groupErr")]
              /\ mon' = [mon EXCEPT ![w][e] = "fallback"]
              /\ UNCHANGED <<current_process, process_lock, child>>
    /\ UNCHANGED <<coord, handlers, wpc, exec_no, is_interrupted, exec_result,
                   termBy>>
    /\ UNCHANGED detail

\* terminate() as it would be if it sent SIGKILL without the grace wait
MonitorTermEnd_nograce(w, e) ==
    /\ mon[w][e] = "wait"
    /\ siglog' = [siglog EXCEPT ![w][current_process[w]] = Append(@, "KILL")]
    /\ mon' = [mon EXCEPT ![w][e] = "reap"]
    /\ UNCHANGED <<coord, handlers, wpc, exec_no, current_process,
                   is_interrupted, process_lock, exec_result, child, termBy>>
    /\ UNCHANGED detail

\* CodeExecutor.terminate, lines 221-227: wait(timeout=2) returns when the
\* child has ended; on TimeoutExpired SIGKILL is sent to the group
MonitorTermEnd(w, e) ==
    /\ mon[w][e] = "wait"
    /\ LET c == current_process[w] IN
       IF running(w, c)
       THEN /\ siglog' = [siglog EXCEPT ![w][c] = Append(@, "KILL")]
            /\ mon' = [mon EXCEPT ![w][e] = "reap"]
            /\ UNCHANGED <<current_process, process_lock>>
       ELSE /\ terminate_finally(w, e)
            /\ UNCHANGED siglog
    /\ UNCHANGED <<coord, handlers, wpc, exec_no, is_interrupted, exec_result,
                   child, termBy>>
    /\ UNCHANGED detail

\* CodeExecutor.terminate, lines 236-238: the fallback,
\* current_process.terminate(), signals the process alone
MonitorFallback(w, e) ==
    /\ mon[w][e] = "fallback"
    /\ LET c == current_process[w] IN
         /\ siglog' = [siglog EXCEPT ![w][c] = Append(@, "pTERM")]
         /\ child' = signalled(w, c)
    /\ mon' = [mon EXCEPT ![w][e] = "fbwait"]
    /\ UNCHANGED <<coord, handlers, wpc, exec_no, current_process,
                   is_interrupted, process_lock, exec_result, termBy>>
    /\ UNCHANGED detail

\* CodeExecutor.terminate, lines 238-240: wait(timeout=2) of the fallback
\* returns when the child has ended; on the timeout current_process.kill()
MonitorFallbackWait(w, e) ==
    /\ mon[w][e] = "fbwait"
    /\ LET c == current_process[w] IN
       IF running(w, c)
       THEN /\ siglog' = [siglog EXCEPT ![w][c] = Append(@, "pKILL")]
            /\ mon' = [mon EXCEPT ![w][e] = "reap"]
            /\ UNCHANGED <<current_process, process_lock>>
       ELSE /\ terminate_finally(w, e)
            /\ UNCHANGED siglog
    /\ UNCHANGED <<coord, handlers, wpc, exec_no, is_interrupted, exec_result,
                   child, termBy>>
    /\ UNCHANGED detail

\* CodeExecutor.terminate, lines 228 and 241: wait() without a timeout
\* returns only when the child has ended
MonitorReap(w, e) ==
    /\ mon[w][e] = "reap"
    /\ ~running(w, current_process[w])
    /\ terminate_finally(w, e)
    /\ UNCHANGED <<coord, handlers, wpc, exec_no, is_interrupted, exec_result,
                   child, termBy, siglog>>
    /\ UNCHANGED detail

----------------------------------------------------------------------------
\* The steps of the handlers, the workers and the streaming loops
Coordinator(R) ==
    \/ \E r \in R : StartCheck(r)
    \/ \E r \in Requests : StartInit(r)
    \/ \E r \in Requests : StartClear(r)
    \/ \E r \in Requests : StartSpawn(r)
    \/ \E r \in Requests : StartThread(r)
    \/ \E r \in Requests : StreamTop(r)
    \/ \E r \in Requests : StreamRecheck(r)
    \/ \E r \in Requests, save_due \in BOOLEAN : StreamDrain(r, save_due)
    \/ \E r \in Requests : StreamFinal(r)
    \/ StopCheck
    \/ StopSet
    \/ \E w \in Requests : WorkerHeader(w)
    \/ \E w \in Requests : WorkerAgent(w)
    \/ \E w \in Requests : AgentReturn(w)
    \/ \E w \in Requests : WorkerAfter(w)
    \/ \E w \in Requests : WorkerFinally(w)
    \/ \E w \in Requests : WorkerTrail(w)

\* The steps of the executors, their monitors and their child processes
Executor ==
    \/ \E w \in Requests : ExecBegin(w)
    \/ \E w \in Requests, ok \in BOOLEAN : ExecSpawn(w, ok)
    \/ \E w \in Requests : ExecRead(w)
    \/ \E w \in Requests, eof \in BOOLEAN : ExecReadline(w, eof)
    \/ \E w \in Requests : ExecStderr(w)
    \/ \E w \in Requests : ExecReadlines(w)
    \/ \E w \in Requests : ExecWait(w)
    \/ \E w \in Requests : ExecClear(w)
    \/ \E w \in Requests : ExecExcept(w)
    \/ \E w \in Requests, e \in Execs : ChildExit(w, e)
    \/ \E w \in Requests, e \in Execs : ChildDie(w, e)
    \/ \E w \in Requests, e \in Execs : MonitorPoll(w, e)
    \/ \E w \in Requests, e \in Execs : MonitorTerminate(w, e)
    \/ \E w \in Requests, e \in Execs, res \in {"sent", "lookup", "error"} :
          MonitorSigterm(w, e, res)
    \/ \E w \in Requests, e \in Execs : MonitorTermEnd(w, e)
    \/ \E w \in Requests, e \in Execs : MonitorFallback(w, e)
    \/ \E w \in Requests, e \in Execs : MonitorFallbackWait(w, e)
    \/ \E w \in Requests, e \in Execs : MonitorReap(w, e)

\* Tasks started with execute = False (the Agent only generates code):
\* MaxRequests start requests, any number of stop requests.
Next == Coordinator(Requests)

Spec == Init /\ [][Next]_vars

\* One task started with execute = True: a single start request, any number
\* of stop requests, up to MaxExec execute() calls.
NextExec == Coordinator({1}) \/ Executor

SpecExec == Init /\ [][NextExec]_vars

----------------------------------------------------------------------------
\* Fairness for SpecExec: every thread of the program that can take a step
\* eventually takes one.  The user's requests, the return of Agent.run, and
\* what a child process does (its output, its completion, its death of a
\* signal) are not forced.
FairExec ==
    /\ \A r \in Requests :
         /\ WF_vars(StartInit(r)) /\ WF_vars(StartClear(r))
         /\ WF_vars(StartSpawn(r)) /\ WF_vars(StartThread(r))
         /\ WF_vars(StreamTop(r)) /\ WF_vars(StreamRecheck(r))
         /\ WF_vars(\E save_due \in BOOLEAN : StreamDrain(r, save_due))
         /\ WF_vars(StreamFinal(r))
         /\ WF_vars(WorkerHeader(r)) /\ WF_vars(WorkerAgent(r))
         /\ WF_vars(WorkerAfter(r)) /\ WF_vars(WorkerFinally(r))
         /\ WF_vars(WorkerTrail(r))
         /\ WF_vars(\E ok \in BOOLEAN : ExecSpawn(r, ok))
         /\ WF_vars(ExecRead(r)) /\ WF_vars(ExecReadline(r, TRUE))
         /\ WF_vars(ExecStderr(r)) /\ WF_vars(ExecReadlines(r))
         /\ WF_vars(ExecWait(r))
         /\ WF_vars(ExecClear(r)) /\ WF_vars(ExecExcept(r))
         /\ \A e \in Execs :
              /\ WF_vars(MonitorPoll(r, e))
              /\ WF_vars(MonitorTerminate(r, e))
              /\ WF_vars(\E res \in {"sent", "lookup", "error"} :
                            MonitorSigterm(r, e, res))
              /\ WF_vars(MonitorTermEnd(r, e))
              /\ WF_vars(MonitorFallback(r, e))
              /\ WF_vars(MonitorFallbackWait(r, e))
              /\ WF_vars(MonitorReap(r, e))
    /\ WF_vars(StopSet)

FairSpecExec == SpecExec /\ FairExec

----------------------------------------------------------------------------
\* The claims

\* C1: in every reachable state at most one worker thread (run_agent) is
\* alive.
C1_AtMostOneWorkerAlive ==
    Cardinality({w \in Requests : is_alive(w)}) <= 1

\* C2: of the start requests that ran concurrently on an idle coordinator at
\* most one is accepted: no two requests are past the guard and on their way
\* to launch a worker at the same time.
C2_AtMostOneAccepted ==
    Cardinality({r \in Requests :
                   rpc[r] \in {"init", "clear", "spawn", "start"}}) <= 1

\* C3: a start request made while task_running is true is rejected, and the
\* step that rejects it changes nothing but the position of that request:
\* the active flag, the start time, the stored worker handle, the stop
\* signal, the log queue and the checkpoint file keep their values.
C3_RejectedStartMutatesNothing ==
    [][\A r \in Requests :
         (rpc[r] = "ready" /\ rpc'[r] # "ready" /\ task_running)
            => /\ rpc'[r] = "rejected"
               /\ \A q \in Requests \ {r} : rpc'[q] = rpc[q]
               /\ UNCHANGED <<coord, spc, wpc, executor>>]_vars

\* C3: a request was rejected while the task that made it so still runs.
C3_Witness ==
    \E r \in Requests : rpc[r] = "rejected" /\ task_running /\ log_queue # <<>>

\* C4: task_running, current_thread and _task_start_time are torn down only
\* by the finally block of a worker; no other step resets any of them.
C4_TeardownOnlyByWorker ==
    [][(\/ task_running /\ ~task_running'
        \/ current_thread # None /\ current_thread' = None
        \/ task_start_time # None /\ task_start_time' = None)
         => \E w \in Requests : wpc[w] = "finally" /\ wpc'[w] = "trail"]_vars

\* C5: is_task_running() is true exactly when a worker handle is stored and
\* that worker is alive.
C5_RunningIffHandleAlive ==
    is_task_running <=> (current_thread # None /\ is_alive(current_thread))

\* C6: a stop request made while no task is active returns the
\* nothing-to-stop message and changes no state: the stop signal, the active
\* flag, the stored handle, the log queue and the checkpoint keep their
\* values.
C6_IdleStopMutatesNothing ==
    [][(spc # "set" /\ spc' # spc /\ ~task_running)
         => /\ spc' = "nothing"
            /\ UNCHANGED <<coord, rpc, wpc, executor>>]_vars

\* C6: a stop request returned nothing-to-stop after a task had run.
C6_Witness ==
    /\ spc = "nothing"
    /\ ~task_running
    /\ \E r \in Requests : rpc[r] = "done"

\* C7: a stop signal that is set is cleared only by a start request that
\* accepts a new task (line 91).
C7_SignalClearedOnlyByStart ==
    [][(stop_flag /\ ~stop_flag')
         => \E r \in Requests : rpc[r] = "clear" /\ rpc'[r] = "spawn"]_vars

\* C8: whenever the stop signal is set while a child process runs,
\* terminate() is eventually applied to that child, unless the child has
\* ended by itself before.
C8_StopTakesEffect ==
    \A w \in Requests, e \in Execs :
        (stop_flag /\ child[w][e] = "running")
            ~> (termBy[w][e] # {} \/ child[w][e] = "exited")

\* C9: a child that runs while the stop signal is set is sent the signals of
\* terminate() exactly once: no child is ever signalled by more than one
\* call, and a running child under a set signal is eventually signalled by
\* one (unless it ends by itself first).
C9_SignalledExactlyOnce ==
    \A w \in Requests, e \in Execs :
        /\ [](Cardinality(termBy[w][e]) <= 1)
        /\ [](stop_flag /\ child[w][e] = "running"
                => <>(Cardinality(termBy[w][e]) = 1 \/ child[w][e] = "exited"))

\* C10: a monitor thread never calls terminate() on the process of a later
\* execution: the child of execution e is signalled by the monitor of
\* execution e only.
C10_StaleMonitorNeverActs ==
    \A w \in Requests, e \in Execs : termBy[w][e] \subseteq {e}

----------------------------------------------------------------------------
\* log_handler._stream_logs_with_heartbeat in detail, for the task of start
\* request Task, whose worker thread has just been started.  Time is counted
\* in ticks of 50 ms, the sleep of one iteration.  A record is the number it
\* was published under.

Task == 1

MAX_DISPLAY_LINES == 100
MAX_HISTORY_LINES == 500
\* 0.1 s, 10 s, the sleep of 0.05 s and the sleep of 0.1 s, in ticks
MIN_YIELD_INTERVAL == 2
HEARTBEAT_INTERVAL == 200
LOOP_SLEEP == 1
RECHECK_SLEEP == 2
\* the entry of the rolling buffer that is the notice of the stop signal
STOP_NOTICE == 0

Min(a, b) == IF a < b THEN a ELSE b

\* seq[-n:]
last(seq, n) ==
    IF Len(seq) > n THEN SubSeq(seq, Len(seq) - n + 1, Len(seq)) ELSE seq

\* the drain as it would be if it put a new record in front of the buffer
RECURSIVE drain_in_front(_, _)
drain_in_front(buffer, queue) ==
    IF queue = <<>> THEN buffer
    ELSE IF Len(queue) = 1
    THEN last(<<queue[1]>> \o buffer, MAX_HISTORY_LINES)
    ELSE LET half == Len(queue) \div 2
             first == drain_in_front(buffer, SubSeq(queue, 1, half))
         IN  IF Len(first) >= 0
             THEN drain_in_front(first, SubSeq(queue, half + 1, Len(queue)))
             ELSE first

\* lines 126-133: every queued message, from the first to the last, is
\* appended to the buffer, which is cut to its last MAX_HISTORY_LINES
\* entries after each (the messages of the first half, then those of the
\* second half)
RECURSIVE drain(_, _)
drain(buffer, queue) ==
    IF queue = <<>> THEN buffer
    ELSE IF Len(queue) = 1
    THEN last(Append(buffer, queue[1]), MAX_HISTORY_LINES)
    ELSE LET half == Len(queue) \div 2
             first == drain(buffer, SubSeq(queue, 1, half))
         IN  IF Len(first) >= 0
             THEN drain(first, SubSeq(queue, half + 1, Len(queue)))
             ELSE first

\* lines 181-187: the final drain appends and does not cut
final_drain(buffer, queue) == buffer \o queue

\* the banner as it would be if it gave the number of records published and
\* no longer in the buffer
truncated_count_dropped(buffer) ==
    IF Len(buffer) > MAX_DISPLAY_LINES
    THEN buffer[1] - 1
    ELSE 0

\* lines 155-158 and 192-194: the number the truncation banner gives, 0
\* standing for no banner
truncated_count(buffer) ==
    IF Len(buffer) > MAX_DISPLAY_LINES
    THEN Len(buffer) - MAX_DISPLAY_LINES
    ELSE 0

\* lines 153-167: the snapshot of an iteration
progress_snapshot(buffer) ==
    [kind |-> "progress", lines |-> last(buffer, MAX_DISPLAY_LINES),
     hidden |-> truncated_count(buffer), banner |-> "none"]

\* lines 174-175: the snapshot made when the stop signal is seen
stop_snapshot(buffer) ==
    [kind |-> "stop", lines |-> last(buffer, MAX_DISPLAY_LINES),
     hidden |-> 0, banner |-> "none"]

\* lines 190-201: the final snapshot
final_snapshot(buffer) ==
    [kind |-> "final", lines |-> last(buffer, MAX_DISPLAY_LINES),
     hidden |-> truncated_count(buffer),
     banner |-> IF stop_flag THEN "stopped" ELSE "completed"]

\* yield: the snapshot goes to the consumer
yield(s) == snapshots' = Append(snapshots, s)

\* k calls of log_callback by the worker
publish(k) ==
    /\ log_queue' = log_queue \o [i \in 1..k |-> published + i]
    /\ published' = published + k

\* lines 106-118: current_time is read, has_new_log is reset, and the
\* thread and the queue are looked at
LoopTop(limit) ==
    /\ lpc = "top"
    /\ loops < limit
    /\ loops' = loops + 1
    /\ since_yield' = Min(HEARTBEAT_INTERVAL + 1, since_yield + slept)
    /\ since_heartbeat' = Min(HEARTBEAT_INTERVAL, since_heartbeat + slept)
    /\ slept' = 0
    /\ has_new_log' = FALSE
    /\ lpc' = IF ~thread_alive /\ log_queue = <<>> THEN "recheck" ELSE "drain"
    /\ UNCHANGED <<coord, handlers, wpc, executor, rewrite, pipes, log_buffer,
                   snapshots, published, bursts>>

\* n iterations in a row in which the thread is alive, the queue is empty,
\* no heartbeat is due and the stop signal is unset: nothing is emitted,
\* and the clock was last read LOOP_SLEEP before the end of the last sleep
LoopIdle(n, limit) ==
    /\ lpc = "top"
    /\ loops < limit
    /\ thread_alive /\ log_queue = <<>> /\ ~stop_flag
    /\ since_heartbeat + slept + (n - 1) * LOOP_SLEEP < HEARTBEAT_INTERVAL
    /\ loops' = loops + 1
    /\ since_yield' = Min(HEARTBEAT_INTERVAL + 1,
                          since_yield + slept + (n - 1) * LOOP_SLEEP)
    /\ since_heartbeat' = since_heartbeat + slept + (n - 1) * LOOP_SLEEP
    /\ slept' = LOOP_SLEEP
    /\ UNCHANGED <<coord, handlers, wpc, executor, rewrite, pipes, lpc, log_buffer,
                   has_new_log, snapshots, published, bursts>>

\* lines 119-122: sleep 0.1 s, then break if the queue is still empty
LoopRecheck ==
    /\ lpc = "recheck"
    /\ slept' = slept + RECHECK_SLEEP
    /\ lpc' = IF log_queue = <<>> THEN "final" ELSE "drain"
    /\ UNCHANGED <<coord, handlers, wpc, executor, rewrite, pipes, log_buffer,
                   has_new_log, since_yield, since_heartbeat, loops,
                   snapshots, published, bursts>>

\* lines 124-140: the queue is drained into the buffer, and the heartbeat
LoopDrain ==
    /\ lpc = "drain"
    /\ log_buffer' = drain(log_buffer, log_queue)
    /\ log_queue' = <<>>
    /\ IF since_heartbeat >= HEARTBEAT_INTERVAL
       THEN /\ since_heartbeat' = 0
            /\ has_new_log' = TRUE
       ELSE /\ has_new_log' = (log_queue # <<>>)
            /\ UNCHANGED since_heartbeat
    /\ lpc' = "emit"
    /\ UNCHANGED <<task_running, task_start_time, current_thread, stop_flag,
                   task_state_file, handlers, wpc, executor, rewrite, pipes,
                   since_yield, slept, loops, snapshots, published, bursts>>

\* lines 142-166: the periodic checkpoint when SAVE_INTERVAL has elapsed
\* (save_due); when there is something new and MIN_YIELD_INTERVAL has elapsed
\* since the last snapshot, the text is built and the status line loads
\* current_thread for its truth value: if there is none the snapshot is
\* emitted as completed, otherwise current_thread is loaded once more
LoopEmit(save_due) ==
    /\ lpc = "emit"
    /\ task_state_file' =
         IF save_due
         THEN [running |-> TRUE, line_count |-> Task, last_update |-> Task]
         ELSE task_state_file
    /\ IF has_new_log /\ since_yield >= MIN_YIELD_INTERVAL
       THEN IF current_thread # None
            THEN /\ lpc' = "status"
                 /\ UNCHANGED <<snapshots, since_yield>>
            ELSE /\ yield(progress_snapshot(log_buffer))
                 /\ since_yield' = 0
                 /\ lpc' = "stop"
       ELSE /\ lpc' = "stop"
            /\ UNCHANGED <<snapshots, since_yield>>
    /\ UNCHANGED <<task_running, task_start_time, current_thread, stop_flag,
                   log_queue, handlers, wpc, executor, rewrite, pipes, log_buffer,
                   has_new_log, since_heartbeat, slept, loops, published,
                   bursts>>

\* lines 166-169: current_thread is loaded a second time and is_alive() is
\* called on it; on None that raises AttributeError, which nothing catches
\* (gui.py line 167), so the generator ends there; otherwise the snapshot is
\* emitted
LoopStatus ==
    /\ lpc = "status"
    /\ IF current_thread = None
       THEN /\ lpc' = "crashed"
            /\ rpc' = [rpc EXCEPT ![Task] = "failed"]
            /\ UNCHANGED <<snapshots, since_yield>>
       ELSE /\ yield(progress_snapshot(log_buffer))
            /\ since_yield' = 0
            /\ lpc' = "stop"
            /\ UNCHANGED rpc
    /\ UNCHANGED <<coord, spc, wpc, executor, rewrite, pipes, log_buffer,
                   has_new_log, since_heartbeat, slept, loops, published,
                   bursts>>

\* lines 171-178: on the stop signal the notice is appended, a snapshot is
\* emitted and the loop is left; otherwise the loop sleeps 0.05 s
LoopStop ==
    /\ lpc = "stop"
    /\ IF stop_flag
       THEN /\ log_buffer' = Append(log_buffer, STOP_NOTICE)
            /\ yield(stop_snapshot(log_buffer'))
            /\ lpc' = "final"
            /\ UNCHANGED slept
       ELSE /\ slept' = slept + LOOP_SLEEP
            /\ lpc' = "top"
            /\ UNCHANGED <<log_buffer, snapshots>>
    /\ UNCHANGED <<coord, handlers, wpc, executor, rewrite, pipes, has_new_log,
                   since_yield, since_heartbeat, loops, published, bursts>>

\* lines 180-212: the final drain, the final checkpoint, task_running =
\* False and the final snapshot
LoopFinal ==
    /\ lpc = "final"
    /\ log_buffer' = final_drain(log_buffer, log_queue)
    /\ log_queue' = <<>>
    /\ task_state_file' = [running |-> FALSE, completed |-> TRUE,
                           line_count |-> Task, end_time |-> Task]
    /\ task_running' = FALSE
    /\ yield(final_snapshot(log_buffer'))
    /\ lpc' = "ended"
    /\ rpc' = [rpc EXCEPT ![Task] = "done"]
    /\ UNCHANGED <<task_start_time, current_thread, stop_flag, spc, wpc,
                   executor, rewrite, pipes, has_new_log, since_yield,
                   since_heartbeat, slept, loops, published, bursts>>

\* gui.py run_agent, lines 104-136: the header lines and, unless the task
\* was cancelled before it started, the start lines
StreamWorkerHeader ==
    /\ wpc[Task] = "header"
    /\ publish(2)
    /\ wpc' = [wpc EXCEPT ![Task] = IF stop_flag THEN "finally" ELSE "run"]
    /\ UNCHANGED <<task_running, task_start_time, current_thread, stop_flag,
                   task_state_file, handlers, executor, rewrite, pipes, lpc,
                   log_buffer, has_new_log, since_yield, since_heartbeat,
                   slept, loops, snapshots, bursts>>

\* gui.py run_agent, line 138: Agent.run publishes k records through the
\* log_callback it was given
StreamWorkerLog(k) ==
    /\ wpc[Task] = "run"
    /\ bursts < MaxBursts
    /\ bursts' = bursts + 1
    /\ publish(k)
    /\ UNCHANGED <<task_running, task_start_time, current_thread, stop_flag,
                   task_state_file, handlers, wpc, executor, rewrite, pipes, lpc,
                   log_buffer, has_new_log, since_yield, since_heartbeat,
                   slept, loops, snapshots>>

\* gui.py run_agent, lines 140-143: the footer, or the interrupted notice
StreamWorkerAfter ==
    /\ wpc[Task] = "after"
    /\ publish(1)
    /\ wpc' = [wpc EXCEPT ![Task] = "finally"]
    /\ UNCHANGED <<task_running, task_start_time, current_thread, stop_flag,
                   task_state_file, handlers, executor, rewrite, pipes, lpc,
                   log_buffer, has_new_log, since_yield, since_heartbeat,
                   slept, loops, snapshots, bursts>>

\* gui.py run_agent, lines 157-159: the three trailing lines, then the
\* thread ends
StreamWorkerTrail ==
    /\ wpc[Task] = "trail"
    /\ publish(3)
    /\ wpc' = [wpc EXCEPT ![Task] = "finished"]
    /\ UNCHANGED <<task_running, task_start_time, current_thread, stop_flag,
                   task_state_file, handlers, executor, rewrite, pipes, lpc,
                   log_buffer, has_new_log, since_yield, since_heartbeat,
                   slept, loops, snapshots, bursts>>

\* the state in which start request Task has been accepted, has started its
\* worker thread and enters the streaming loop (lines 88-102 of the loop)
InitStream ==
    /\ RewriteIdle /\ PipeIdle
    /\ task_running = TRUE
    /\ task_start_time = Now(Task)
    /\ current_thread = Task
    /\ stop_flag = FALSE
    /\ log_queue = <<>>
    /\ task_state_file = [running |-> TRUE, mode |-> Task,
                          start_time |-> Task, config |-> Task]
    /\ rpc = [r \in Requests |-> IF r = Task THEN "loop" ELSE "ready"]
    /\ spc = "idle"
    /\ wpc = [w \in Requests |-> IF w = Task THEN "header" ELSE "none"]
    /\ exec_no = [w \in Requests |-> 0]
    /\ current_process = [w \in Requests |-> None]
    /\ is_interrupted = [w \in Requests |-> FALSE]
    /\ process_lock = [w \in Requests |-> FALSE]
    /\ exec_result = [w \in Requests |-> "none"]
    /\ child = [w \in Requests |-> [e \in Execs |-> "none"]]
    /\ mon = [w \in Requests |-> [e \in Execs |-> "none"]]
    /\ termBy = [w \in Requests |-> [e \in Execs |-> {}]]
    /\ siglog = [w \in Requests |-> [e \in Execs |-> <<>>]]
    /\ lpc = "top"
    /\ log_buffer = <<>>
    /\ has_new_log = FALSE
    /\ since_yield = 0
    /\ since_heartbeat = 0
    /\ slept = 0
    /\ loops = 0
    /\ snapshots = <<>>
    /\ published = 0
    /\ bursts = 0

\* The steps of the loop, of the worker and of the stop request, the loop
\* idling Skips iterations at a time and reading the clock in limit steps
\* at most, Agent.run publishing Sizes records at a time.
Stream(Skips, Sizes, limit) ==
    \/ LoopTop(limit)
    \/ \E n \in Skips : LoopIdle(n, limit)
    \/ LoopRecheck
    \/ LoopDrain
    \/ \E save_due \in BOOLEAN : LoopEmit(save_due)
    \/ LoopStatus
    \/ LoopStop
    \/ LoopFinal
    \/ StreamWorkerHeader
    \/ \E k \in Sizes : StreamWorkerLog(k)
    \/ AgentReturn(Task)
    \/ StreamWorkerAfter
    \/ WorkerFinally(Task)
    \/ StreamWorkerTrail
    \/ StopCheck
    \/ StopSet

\* the loop on time: single records, idle stretches of nearly a heartbeat
NextBeat == Stream({HEARTBEAT_INTERVAL - 2}, {1}, MaxLoops)

SpecBeat == InitStream /\ [][NextBeat]_vars

\* the buffer under load: bursts of 3 and of MAX_HISTORY_LINES records, which
\* with the two of the header make MAX_HISTORY_LINES + 5
NextBuffer ==
    Stream({HEARTBEAT_INTERVAL - 2}, {3, MAX_HISTORY_LINES}, MaxBufferLoops)

SpecBuffer == InitStream /\ [][NextBuffer]_vars

\* the positions inside the while loop
LoopPcs == {"top", "recheck", "drain", "emit", "status", "stop"}

\* the records a snapshot shows, in the order it shows them
Records(s) == SelectSeq(s.lines, LAMBDA x : x # STOP_NOTICE)

Range(seq) == {seq[i] : i \in DOMAIN seq}

\* the records of a snapshot are in publish order, each once
InPublishOrder(s) ==
    LET R == Records(s) IN \A i \in 1..(Len(R) - 1) : R[i] < R[i + 1]

\* the records of s1 that s2 still shows are in s2 in the same order, and
\* those that s2 no longer shows are the oldest of s1
Retained(s1, s2) ==
    LET R1 == Records(s1)
        R2 == Records(s2)
        S1 == Range(R1)
        S2 == Range(R2)
        C1 == SelectSeq(R1, LAMBDA x : x \in S2)
        C2 == SelectSeq(R2, LAMBDA x : x \in S1)
    IN  C1 = C2 /\ C1 = last(R1, Len(C1))

\* C18: every snapshot shows its records in publish order, each at most
\* once; and of two snapshots of one streaming sequence the later shows the
\* records of the earlier that it still shows in the same order, the ones
\* it no longer shows being the oldest of the earlier.
C18_OrderPreserved ==
    [][snapshots' # snapshots
         => LET new == snapshots'[Len(snapshots')] IN
            /\ InPublishOrder(new)
            /\ \A i \in 1..Len(snapshots) : Retained(snapshots[i], new)]_vars

\* C18: a later snapshot shows some records of an earlier one and no longer
\* shows others, the buffer having been cut at its oldest end as well.
C18_Witness ==
    \E i, j \in 1..Len(snapshots) :
        /\ i < j
        /\ Range(Records(snapshots[i])) \cap Range(Records(snapshots[j])) # {}
        /\ Range(Records(snapshots[i])) \ Range(Records(snapshots[j])) # {}
        /\ Len(log_buffer) >= MAX_HISTORY_LINES /\ log_buffer[1] > 1

\* all of MAX_HISTORY_LINES + 5 published records have been drained by the
\* iterations of the loop
DrainedOverflow ==
    /\ lpc \in LoopPcs
    /\ published = MAX_HISTORY_LINES + 5
    /\ log_queue = <<>>
    /\ log_buffer # <<>> /\ log_buffer[Len(log_buffer)] = published

\* the snapshots of an iteration that show the record last published
ShowingLast ==
    {i \in 1..Len(snapshots) :
        /\ snapshots[i].kind = "progress"
        /\ snapshots[i].lines # <<>>
        /\ snapshots[i].lines[Len(snapshots[i].lines)] = published}

\* the buffer holds the MAX_HISTORY_LINES records last published
OldestFiveDropped ==
    /\ Len(log_buffer) = MAX_HISTORY_LINES
    /\ \A i \in 1..MAX_HISTORY_LINES : log_buffer[i] = i + 5

C20_SilenceBounded ==
    (lpc \in LoopPcs /\ thread_alive) => since_yield <= HEARTBEAT_INTERVAL

----------------------------------------------------------------------------
\* src/executor.py CodeExecutor.execute, lines 34-51: the script that is run.
\* A text is the sequence of its lines; what the rewriting looks at in a line
\* is whether it contains 'mamba activate abc_runtime' (and how often) and
\* whether it contains 'conda shell.bash hook'.

ActivateLine == "mamba activate abc_runtime"
ActivateTwiceLine == "mamba activate abc_runtime && mamba activate abc_runtime"
CondaHookLine == "eval \"$(conda shell.bash hook)\""
MambaHookLine == "eval \"$(mamba shell hook --shell bash)\""
CommandLine == "samtools --version"

\* the lines a script is made of
Lines == {ActivateLine, ActivateTwiceLine, CondaHookLine, CommandLine, ""}

\* the scripts: content.split('\n') has at least one line
Scripts == UNION {[1..n -> Lines] : n \in 1..MaxLines}

\* the number of occurrences of the activation directive in a line
activations(line) ==
    CASE line = ActivateLine -> 1
      [] line = ActivateTwiceLine -> 2
      [] OTHER -> 0

\* 'conda shell.bash hook' in stripped
has_conda_hook(line) == line = CondaHookLine

\* the number of occurrences of the activation directive in a text
RECURSIVE Activations(_)
Activations(lines) ==
    IF lines = <<>> THEN 0
    ELSE activations(Head(lines)) + Activations(Tail(lines))

\* CodeExecutor.__init__, lines 10-14
code_prefix == <<MambaHookLine, ActivateLine>>
code_postfix == <<>>

\* CodeExecutor._clean_script_content, lines 147-161: the loop over the
\* lines, seen being 'abc_runtime' in seen_activations
RECURSIVE clean_lines(_, _)
clean_lines(lines, seen) ==
    IF lines = <<>> THEN <<>>
    ELSE LET line == Head(lines) IN
         IF activations(line) > 0
         THEN IF ~seen
              THEN <<line>> \o clean_lines(Tail(lines), TRUE)
              ELSE clean_lines(Tail(lines), seen)
         ELSE IF has_conda_hook(line)
              THEN clean_lines(Tail(lines), seen)
              ELSE <<line>> \o clean_lines(Tail(lines), seen)

\* CodeExecutor._clean_script_content
clean_script_content(content) == clean_lines(content, FALSE)

\* the lines of '\n'.join(lines): the join of no line is one empty line
joined(lines) == IF lines = <<>> THEN <<"">> ELSE lines

\* CodeExecutor.execute, lines 44-51: the file that is written
written_script(content) ==
    code_prefix \o joined(clean_script_content(content)) \o code_postfix

\* CodeExecutor.execute, lines 34-51: the script is read, and the script to
\* run is written
WriteExecuteScript ==
    /\ bash_content # <<>>
    /\ execute_script = <<>>
    /\ execute_script' = written_script(bash_content)
    /\ UNCHANGED <<coord, handlers, wpc, executor, bash_content, stream,
                   pipes>>

\* execute() is given a script of up to MaxLines lines
InitScript ==
    /\ InitProgram /\ StreamIdle /\ PipeIdle
    /\ bash_content \in Scripts
    /\ execute_script = <<>>

NextScript == WriteExecuteScript

SpecScript == InitScript /\ [][NextScript]_vars

\* C17: a script that contains the activation directive three times is run
\* as a script that contains it exactly once.
C17_ActivatedOnce ==
    (Activations(bash_content) = 3 /\ execute_script # <<>>)
        => Activations(execute_script) = 1

----------------------------------------------------------------------------
\* CodeExecutor.execute and CodeExecutor.terminate

\* the positions of a worker inside CodeExecutor.execute
ExecPcs ==
    {"exec_spawn", "exec_read", "exec_readline", "exec_stderr",
     "exec_readlines", "exec_wait", "exec_clear", "exec_except"}

\* execution e of worker w has returned
ExecDone(w, e) == exec_no[w] > e \/ (exec_no[w] = e /\ wpc[w] \notin ExecPcs)

\* the latest execution of worker w has returned; exec_result[w] is its result
ExecReturned(w) == exec_no[w] >= 1 /\ ExecDone(w, exec_no[w])

\* x was recorded in the signal history log
Sent(log, x) == \E i \in 1..Len(log) : log[i] = x

\* C11: whenever terminate() has interrupted the child of an execution, that
\* execution returns the interrupted-by-user result and never the
\* execution-error text, whatever the interleaving of terminate() with the
\* reads of current_process in execute().
C11_InterruptedNeverError ==
    \A w \in Requests :
        (ExecReturned(w) /\ termBy[w][exec_no[w]] # {})
            => exec_result[w] = "interrupted"

\* C12: an execution whose Popen failed raises nothing: it returns the
\* execution-error result to the agent, and current_process is None
\* afterwards.
C12_SpawnFailureReturnsError ==
    \A w \in Requests :
        /\ (ExecReturned(w) /\ child[w][exec_no[w]] = "none")
              => (exec_result[w] = "error" /\ current_process[w] = None)
        /\ exec_result[w] # "raised"

\* C12: an execution whose Popen failed has returned to the agent.
C12_Witness ==
    \E w \in Requests :
        /\ ExecReturned(w) /\ child[w][exec_no[w]] = "none"
        /\ wpc[w] = "run" /\ exec_result[w] = "error"

\* C13: a call of terminate() made while no process is stored, or while the
\* stored process has ended, returns and changes nothing: no signal, no
\* change of is_interrupted, of current_process or of the lock; so any
\* number of such calls leaves the state that one call leaves.
C13_TerminateNoOp ==
    [][\A w \in Requests, e \in Execs :
          ( /\ mon[w][e] = "call" /\ mon'[w][e] # "call"
            /\ (current_process[w] = None
                  \/ child[w][current_process[w]] \notin {"running", "termed"}) )
          => /\ mon'[w][e] = "done"
             /\ UNCHANGED <<is_interrupted, current_process, process_lock,
                            child, termBy, siglog>>]_vars

\* C13: two calls of terminate() have returned, one of them made while a
\* process that had ended was still stored, and no signal was ever sent.
C13_Witness ==
    \E w \in Requests : \E e1, e2 \in Execs :
        /\ e1 # e2 /\ mon[w][e1] = "done" /\ mon[w][e2] = "done"
        /\ current_process[w] # None
        /\ \A e \in Execs : termBy[w][e] = {} /\ siglog[w][e] = <<>>

\* C14: every signal of terminate() is sent with is_interrupted already set;
\* SIGKILL is sent to the group only after SIGTERM was sent to it, and only
\* by a step that finds the process not ended after the grace wait.
C14_GracefulThenForceful ==
    /\ [](\A w \in Requests, e \in Execs :
            \A i \in 1..Len(siglog[w][e]) :
                siglog[w][e][i] = "KILL"
                    => \E j \in 1..(i - 1) : siglog[w][e][j] = "TERM")
    /\ [][\A w \in Requests, e \in Execs :
            siglog'[w][e] # siglog[w][e]
                => /\ is_interrupted[w]
                   /\ (siglog'[w][e][Len(siglog'[w][e])] = "KILL"
                         => child[w][e] \in {"running", "termed"})]_vars

\* C14: a child was sent SIGTERM and, not having ended, SIGKILL.
C14_Witness ==
    \E w \in Requests, e \in Execs : siglog[w][e] = <<"TERM", "KILL">>

\* C15 (as stated): whenever killpg fails, be it because group signalling
\* is unavailable or because the process is gone, terminate() goes on to
\* the process-level terminate.
C15_FallbackOnAnyGroupFailure ==
    \A w \in Requests, e \in Execs :
        (Sent(siglog[w][e], "noGroup") \/ Sent(siglog[w][e], "groupErr"))
            => \/ \E m \in Execs : mon[w][m] = "fallback"
               \/ Sent(siglog[w][e], "pTERM")

\* C15 (amended): when killpg fails with an error other than
\* ProcessLookupError, terminate() goes on to the process-level terminate,
\* and to the process-level kill only after it; when killpg fails with
\* ProcessLookupError, terminate() sends nothing more.
C15_FallbackOnGroupError ==
    \A w \in Requests, e \in Execs :
        LET log == siglog[w][e] IN
        /\ Sent(log, "groupErr")
              => \/ \E m \in Execs : mon[w][m] = "fallback"
                 \/ Sent(log, "pTERM")
        /\ \A i \in 1..Len(log) :
              /\ log[i] = "pKILL" => (i > 1 /\ log[i - 1] = "pTERM")
              /\ log[i] = "noGroup" => i = Len(log)

\* C15: killpg failed with an error, and the process was sent the
\* process-level terminate and then the process-level kill.
C15_Witness ==
    \E w \in Requests, e \in Execs :
        siglog[w][e] = <<"groupErr", "pTERM", "pKILL">>

\* C16: if the child that terminate() signalled never ends, terminate()
\* still returns, the execution returns, and task_running becomes false.
C16_ForcedTerminal ==
    \A w \in Requests, e \in Execs :
        <>[](termBy[w][e] # {} /\ child[w][e] \in {"running", "termed"})
            => <>(~process_lock[w] /\ ExecDone(w, e) /\ ~task_running)

----------------------------------------------------------------------------
\* The streaming sequence, the checkpoint and the tasks that follow one
\* another

\* C21: a streaming sequence has ended only when its worker thread has
\* ended and the queue holds no record of that worker.
C21_EndsOnlyWhenWorkerDone ==
    \A r \in Requests :
        rpc[r] = "done"
            => /\ ~is_alive(r)
               /\ \A i \in DOMAIN log_queue : log_queue[i] # r

\* C24: every checkpoint record that is written has the fields running,
\* label, start_time, line_count and last_update.
C24_CheckpointFields ==
    "absent" \in DOMAIN task_state_file
        \/ {"running", "label", "start_time", "line_count", "last_update"}
               \subseteq DOMAIN task_state_file

\* C28: the reset_task_state of the worker of a task whose streaming
\* sequence has ended, run when the handle and the start time stored are
\* those of another task, started since, leaves the stored handle, the
\* active flag, the start time and the stop signal as they are.
C28_TeardownOwnTaskOnly ==
    [][\A w \in Requests :
         (/\ wpc[w] = "finally" /\ wpc'[w] = "trail"
          /\ rpc[w] = "done"
          /\ \E r \in Requests \ {w} :
                /\ rpc[r] \in {"loop", "recheck", "drain", "final"}
                /\ current_thread = r
                /\ task_start_time = Now(r))
           => UNCHANGED <<task_running, task_start_time, current_thread,
                          stop_flag>>]_vars

\* C29: what the streaming sequence of a task drains from the queue, and
\* shows, is no record of the worker of a task whose streaming sequence has
\* ended.
C29_OwnRecordsOnly ==
    [][\A r \in Requests :
         (rpc[r] \in {"drain", "final"} /\ rpc'[r] # rpc[r])
           => \A i \in DOMAIN log_queue :
                 log_queue[i] = r \/ rpc[log_queue[i]] # "done"]_vars

\* the snapshots of kind k emitted so far
OfKind(k) == {i \in 1..Len(snapshots) : snapshots[i].kind = k}

\* the handler of the task has ended, by return or by an exception
StreamOver == rpc[Task] \in {"done", "failed"}

\* C22: a streaming sequence that is over has emitted exactly one final
\* snapshot, with a completion or a cancellation banner, and the checkpoint
\* then has running = false.
C22_EndsWithFinalSnapshot ==
    StreamOver
        => /\ Cardinality(OfKind("final")) = 1
           /\ snapshots[Len(snapshots)].banner \in {"completed", "stopped"}
           /\ task_state_file.running = FALSE

\* C23: a run whose loop has seen the stop signal ends with the stopped
\* banner and a final checkpoint that does not say completed; a run for
\* which no stop was requested ends with the completed banner.
C23_BannerTellsOutcome ==
    lpc = "ended"
        => /\ OfKind("stop") # {}
                => /\ snapshots[Len(snapshots)].banner = "stopped"
                   /\ task_state_file.completed = FALSE
           /\ spc = "idle" => snapshots[Len(snapshots)].banner = "completed"

\* C25: the rolling buffer never holds more than MAX_HISTORY_LINES entries.
C25_BufferBounded == Len(log_buffer) <= MAX_HISTORY_LINES

\* the records of the buffer that no snapshot has shown
Unshown ==
    {log_buffer[i] : i \in DOMAIN log_buffer}
        \ UNION {Range(snapshots[j].lines) : j \in DOMAIN snapshots}

\* C26: an iteration that comes to line 152 with drained records that no
\* snapshot has shown, MIN_YIELD_INTERVAL or more after the last snapshot,
\* goes on to emit a snapshot.
C26_PendingEmittedNextIteration ==
    [][(lpc = "emit" /\ lpc' # "emit"
          /\ Unshown # {} /\ since_yield >= MIN_YIELD_INTERVAL)
         => (lpc' = "status" \/ snapshots' # snapshots)]_vars

\* C27: the streaming loop is never ended by an exception.
C27_NeverFailsOnTeardown == lpc # "crashed"

----------------------------------------------------------------------------
\* src/executor.py CodeExecutor.execute, lines 64-120, at the two pipes of
\* its child.  A pipe holds the lines written to it until they are read; a
\* write to a pipe that holds PipeCapacity lines blocks the child.  No stop
\* is requested.

\* the scripts of a child: what it writes, line by line, before it exits
RECURSIVE WritesOfLen(_)
WritesOfLen(n) ==
    IF n = 0 THEN {<<>>}
    ELSE {Append(w, x) : w \in WritesOfLen(n - 1), x \in {"out", "err"}}

Writes == UNION {WritesOfLen(n) : n \in 0..MaxWrites}

\* the child writes its next line, unless the pipe it goes to is full
ChildWrite ==
    /\ writer = "running"
    /\ child_script # <<>>
    /\ IF Head(child_script) = "out"
       THEN /\ stdout_pipe < PipeCapacity
            /\ stdout_pipe' = stdout_pipe + 1
            /\ UNCHANGED stderr_pipe
       ELSE /\ stderr_pipe < PipeCapacity
            /\ stderr_pipe' = stderr_pipe + 1
            /\ UNCHANGED stdout_pipe
    /\ child_script' = Tail(child_script)
    /\ UNCHANGED <<coord, handlers, wpc, executor, rewrite, stream, xpc,
                   writer>>

\* the child has written everything: it exits, which closes its ends of
\* the pipes
ChildClose ==
    /\ writer = "running"
    /\ child_script = <<>>
    /\ writer' = "exited"
    /\ UNCHANGED <<coord, handlers, wpc, executor, rewrite, stream, xpc,
                   child_script, stdout_pipe, stderr_pipe>>

\* lines 79-90: one iteration of the read loop.  readline() returns a line
\* of the stdout pipe when there is one, returns '' when the pipe is empty
\* and closed, and blocks otherwise; the loop is left when is_interrupted
\* is set, or on '' when the child has exited
ReadStdout ==
    /\ xpc = "readline"
    /\ IF is_interrupted[Task]
       THEN /\ xpc' = "stderr"
            /\ UNCHANGED stdout_pipe
       ELSE IF stdout_pipe > 0
       THEN /\ stdout_pipe' = stdout_pipe - 1
            /\ UNCHANGED xpc
       ELSE /\ writer = "exited"
            /\ xpc' = "stderr"
            /\ UNCHANGED stdout_pipe
    /\ UNCHANGED <<coord, handlers, wpc, executor, rewrite, stream, writer,
                   child_script, stderr_pipe>>

\* lines 93-105: stderr.readlines() reads the stderr pipe until it is
\* empty and closed
ReadStderr ==
    /\ xpc = "stderr"
    /\ IF stderr_pipe > 0
       THEN /\ stderr_pipe' = 0
            /\ UNCHANGED xpc
       ELSE /\ writer = "exited"
            /\ xpc' = "wait"
            /\ UNCHANGED stderr_pipe
    /\ UNCHANGED <<coord, handlers, wpc, executor, rewrite, stream, writer,
                   child_script, stdout_pipe>>

\* lines 116-130: communicate() waits for the child, and execute() returns
Communicate ==
    /\ xpc = "wait"
    /\ writer = "exited"
    /\ xpc' = "returned"
    /\ UNCHANGED <<coord, handlers, wpc, executor, rewrite, stream, writer,
                   child_script, stdout_pipe, stderr_pipe>>

\* lines 64-78: the child has been started with both pipes and execute()
\* enters its read loop
InitPipe ==
    /\ InitProgram /\ RewriteIdle /\ StreamIdle
    /\ xpc = "readline"
    /\ writer = "running"
    /\ child_script \in Writes
    /\ stdout_pipe = 0
    /\ stderr_pipe = 0

NextPipe ==
    \/ ChildWrite
    \/ ChildClose
    \/ ReadStdout
    \/ ReadStderr
    \/ Communicate

SpecPipe == InitPipe /\ [][NextPipe]_vars

\* the child is blocked in a write to its full stderr pipe and execute() is
\* blocked in readline() on the empty stdout pipe
BlockedOnEachOther ==
    /\ xpc = "readline" /\ ~is_interrupted[Task]
    /\ stdout_pipe = 0
    /\ writer = "running"
    /\ child_script # <<>> /\ Head(child_script) = "err"
    /\ stderr_pipe = PipeCapacity

\* C30: the child is never blocked writing to its full stderr pipe while
\* execute() is blocked reading its stdout pipe.
C30_NoPipeDeadlock == ~BlockedOnEachOther

====
